---- MODULE Spec2Model ----
(***************************************************************************)
(* ReactiveEventSystem (src/CHANGELOG.md, lines 56-765): an in-process     *)
(* publish/subscribe bus.  The model is a state machine over the bus's     *)
(* fields (events, onceEvents, middleware, reactiveState), the call stack  *)
(* of emit() activations, and the timers and promises of waitFor().        *)
(*                                                                         *)
(* JavaScript is single threaded: an emit() runs to completion, but every  *)
(* callback it invokes (middleware, listener) is user code that may call   *)
(* the bus again before it returns.  A frame of `stack` is one emit()      *)
(* activation suspended inside the callback `cur`; the bus's methods can   *)
(* be called when the stack is empty (top level) or by the callback that   *)
(* runs in the top frame.                                                  *)
(***************************************************************************)
EXTENDS Integers, Sequences, FiniteSets, TLC

VARIABLES
    events,         \* Map<string, Set<listener>>      (line 149)
    onceEvents,     \* Map<string, Set<onceWrapper>>   (line 155)
    middleware,     \* Map<string, EventMiddleware[]>  (line 179)
    reactiveState,  \* EventSystemState                (lines 195-200)
    errorHandler,   \* is options.errorHandler set     (line 202)
    stack,          \* emit() activations, innermost last
    waits,          \* one record per waitFor() call: its timer and promise
    wrappers,       \* one record per once() call: the onceWrapper it made,
                    \* after how many emit calls, inside how many of them
    calls,          \* calls[n]: how often onceWrapper n was invoked
    thrown,         \* how many listener invocations threw
    handled,        \* how many errors were passed to options.errorHandler
    offed,          \* the onceWrappers whose function was given to off() before they ran
    caps,           \* the unsubscribe closures on() and once() returned, and their use
    pipes,          \* one record per pipe() call: the forwarding listener it made
    target,         \* the bus the pipes forward to: a second instance
    streams,        \* one record per stream() call: its cell streamState
    uses,           \* the unregister closures of use() that are followed, and their calls
    emits,          \* how many emit() calls were begun
    ops,            \* how many calls of the public API were made
    ret             \* what the last completed API call returned

vars == << events, onceEvents, middleware, reactiveState, errorHandler, stack,
           waits, wrappers, calls, thrown, handled, offed, caps, pipes, target,
           streams, uses, emits, ops, ret >>

----------------------------------------------------------------------------
(* Bounds and input domains *)

MaxOps == 4
MaxDepth == 2
MaxWaits == 1
MaxPipes == 1
MaxStreams == 1

EventNames == {"a", "*"}
Funcs == {"f", "g"}
Mids == {"m", "n"}
Payloads == {1, 2}

\* A middleware's result `undefined`/`null` (line 711) and waitFor's absent
\* `timeout` argument (line 572).
Void == 0
NoTimeout == -1
Timeouts == {NoTimeout, 0, 10}
WaitNames == << "wait1", "wait2" >>
PipeNames == << "pipe1", "pipe2" >>
TargetEvents == {"b"}
StreamNames == << "stream1", "stream2" >>

\* A callable's identity.  on() stores the function itself (w = 0); once()
\* stores a fresh closure onceWrapper (w = its number) around fn.
\* A caller can also pass a value that is no function (test, line 168).
Fn(f) == [fn |-> f, w |-> 0]
NotFunction == "<not a function>"
IsFunction(x) == x.fn # NotFunction
OnceWrapper(f, n) == [fn |-> f, w |-> n]
NoCallback == [fn |-> "", w |-> 0]

----------------------------------------------------------------------------
(* Map, Set and Array primitives of the host language *)

EmptyMap == [x \in {} |-> << >>]
MapHas(map, k) == k \in DOMAIN map
MapGet(map, k) == IF k \in DOMAIN map THEN map[k] ELSE << >>
MapSet(map, k, v) == [x \in DOMAIN map \cup {k} |-> IF x = k THEN v ELSE map[x]]
MapDelete(map, k) == [x \in DOMAIN map \ {k} |-> map[x]]

Range(seq) == {seq[i] : i \in 1..Len(seq)}
\* Array.prototype.indexOf, 1-based; 0 when absent
IndexOf(seq, x) ==
    IF x \in Range(seq) THEN CHOOSE i \in 1..Len(seq) :
                                 seq[i] = x /\ \A j \in 1..(i - 1) : seq[j] # x
                        ELSE 0
\* Array.prototype.splice(i, 1)
RemoveAt(seq, i) == [j \in 1..(Len(seq) - 1) |-> IF j < i THEN seq[j] ELSE seq[j + 1]]
\* (mutant) adding a member again moves it to the end of the order
SetAddMoves(seq, x) == Append(SelectSeq(seq, LAMBDA y : y # x), x)
\* Set.prototype.add keeps the insertion order and ignores a member
SetAdd(seq, x) == IF x \in Range(seq) THEN seq ELSE Append(seq, x)
\* Set.prototype.delete
SetDelete(seq, x) == IF x \in Range(seq) THEN RemoveAt(seq, IndexOf(seq, x)) ELSE seq

RECURSIVE SumSizes(_, _)
SumSizes(map, keys) ==
    IF keys = {} THEN 0
    ELSE LET k == CHOOSE x \in keys : TRUE
         IN Len(map[k]) + SumSizes(map, keys \ {k})

----------------------------------------------------------------------------
(* The closure on(event, listener) or once(event, listener) returns is     *)
(* `() => this.off(event, x)` with x the member the call put in its Set    *)
(* (lines 237-239 and 282-284).  caps maps << event, x >> to what happened *)
(* to the closures made for it: "fresh" (none was called), "gone" (one was *)
(* called and x was not registered since), "spent" (one was called again   *)
(* while gone), "again" (one was called and x was registered again         *)
(* afterwards).                                                            *)
NoCaps == [x \in {} |-> ""]
CapStatus(c, key) == IF key \in DOMAIN c THEN c[key] ELSE "none"
CapSet(c, key, status) ==
    [x \in DOMAIN c \cup {key} |-> IF x = key THEN status ELSE c[x]]
CapMade(c, key) ==
    CapSet(c, key, IF CapStatus(c, key) \in {"none", "fresh"} THEN "fresh" ELSE "again")
CapCalled(c, key) ==
    CapSet(c, key, IF CapStatus(c, key) \in {"gone", "spent"} THEN "spent" ELSE "gone")
Gone(c) == {key \in DOMAIN c : c[key] \in {"gone", "spent"}}

(* The machine state the bus's methods read and write, as one record, so   *)
(* that a method is an operator from states to states.                     *)

Cur == [events |-> events, onceEvents |-> onceEvents, middleware |-> middleware,
        reactiveState |-> reactiveState, stack |-> stack, waits |-> waits,
        calls |-> calls, thrown |-> thrown, handled |-> handled,
        offed |-> offed, caps |-> caps, pipes |-> pipes, target |-> target,
        streams |-> streams, uses |-> uses, ret |-> ret]

Assign(s) ==
    /\ events' = s.events
    /\ onceEvents' = s.onceEvents
    /\ middleware' = s.middleware
    /\ reactiveState' = s.reactiveState
    /\ stack' = s.stack
    /\ waits' = s.waits
    /\ calls' = s.calls
    /\ thrown' = s.thrown
    /\ handled' = s.handled
    /\ offed' = s.offed
    /\ caps' = s.caps
    /\ pipes' = s.pipes
    /\ target' = s.target
    /\ streams' = s.streams
    /\ uses' = s.uses
    /\ ret' = s.ret

\* emit(event, data) entered (line 311): nothing has run yet.  Besides the
\* locals of emit (event, processedData, hasListeners, the loop positions)
\* an activation keeps what it did: log, the callbacks it invoked with the
\* payload each got; regEnd, the regular Set when its forEach ended; snap,
\* listenersToCall; mwErrs and errs, how many middleware and listeners
\* threw; replaced, whether a middleware returned a payload; during, the
\* methods its callbacks called; what the bus held when it began (gone0:
\* the registrations already unsubscribed by their closure); and drain0,
\* how many once() registrations had been made when it copied the once Set;
\* and cleared, the listeners of its event that a removeAllListeners or
\* destroy called by one of its callbacks found registered or waiting for
\* their turn.  A log entry is stale when the listener it invoked had been
\* cleared and came from a Set the bus no longer holds.  dead0: the streams
\* whose destroy() had been called when the activation began.
NewFrame(s, event, data) ==
    [event |-> event, data0 |-> data, data |-> data, pc |-> "mwG", idx |-> 0,
     cur |-> NoCallback, det |-> FALSE, list |-> << >>, snap |-> << >>,
     has |-> FALSE, log |-> << >>, regEnd |-> << >>,
     mwErrs |-> 0, replaced |-> FALSE, errs |-> 0, during |-> {},
     active0 |-> s.reactiveState.activeListeners,
     reg0 |-> MapGet(s.events, event), once0 |-> MapGet(s.onceEvents, event),
     mw0 |-> s.middleware, gone0 |-> Gone(s.caps),
     tg0 |-> Len(s.target.received), drain0 |-> 0, cleared |-> {},
     dead0 |-> {k \in 1..Len(s.streams) : s.streams[k].destroyed}]

NoFrame ==
    [event |-> "", data0 |-> Void, data |-> Void, pc |-> "", idx |-> 0,
     cur |-> NoCallback, det |-> FALSE, list |-> << >>, snap |-> << >>,
     has |-> FALSE, log |-> << >>, regEnd |-> << >>,
     mwErrs |-> 0, replaced |-> FALSE, errs |-> 0, during |-> {},
     active0 |-> 0, reg0 |-> << >>, once0 |-> << >>, mw0 |-> EmptyMap,
     gone0 |-> {}, tg0 |-> 0, drain0 |-> 0, cleared |-> {}, dead0 |-> {}]

\* The last call that returned: the method, its arguments, and for emit the
\* finished activation (fr.has is the boolean emit returns).
Ret(op, event, arg) == [op |-> op, event |-> event, arg |-> arg,
                        threw |-> FALSE, fr |-> NoFrame]
NoRet == Ret("none", "", NoCallback)

Top(stk) == stk[Len(stk)]
Pop(stk) == SubSeq(stk, 1, Len(stk) - 1)

\* updateMetrics (lines 742-749)
updateMetrics(s) ==
    [s EXCEPT !.reactiveState.activeListeners =
        SumSizes(s.events, DOMAIN s.events)
        + SumSizes(s.onceEvents, DOMAIN s.onceEvents)]

\* Set.prototype.forEach visits the entries of the live Set in insertion
\* order: deleting an entry that was already visited moves no later entry,
\* so an activation that iterates events[event] and is past position p
\* steps back by one when the entry at p goes away.
ForEachAfterDelete(stk, event, p) ==
    [i \in 1..Len(stk) |->
        IF stk[i].pc = "reg" /\ ~stk[i].det /\ stk[i].event = event
           /\ p > 0 /\ p <= stk[i].idx
        THEN [stk[i] EXCEPT !.idx = @ - 1]
        ELSE stk[i]]

\* (mutant) off recomputes the metrics but deletes nothing
offKeeps(s, event, listener) == updateMetrics(s)

\* off (lines 294-301).  The reactive effect of the listener
\* (cleanupReactiveEffect) has no state any method reads back.
off(s, event, listener) ==
    LET regular == MapGet(s.events, event)
        once == MapGet(s.onceEvents, event)
        s1 == [s EXCEPT
                 !.events = IF MapHas(s.events, event)
                            THEN MapSet(s.events, event, SetDelete(regular, listener))
                            ELSE s.events,
                 !.onceEvents = IF MapHas(s.onceEvents, event)
                                THEN MapSet(s.onceEvents, event, SetDelete(once, listener))
                                ELSE s.onceEvents,
                 !.stack = ForEachAfterDelete(s.stack, event, IndexOf(regular, listener))]
    IN updateMetrics(s1)

----------------------------------------------------------------------------
(* emit (lines 311-350), runMiddleware (701-736), callListeners (679-695). *)
(* An activation is advanced from one callback invocation to the next;     *)
(* each operator below takes the state with the activation popped and the  *)
(* activation `fr`, and yields the state in which either the next callback *)
(* has been entered (fr pushed back) or emit has returned (ret set).       *)

IsWaitFn(fn) == \E k \in 1..Len(WaitNames) : WaitNames[k] = fn
WaitIndex(fn) == CHOOSE k \in 1..Len(WaitNames) : WaitNames[k] = fn

\* The listener waitFor registers (lines 577-582): clearTimeout, resolve.
\* A promise is settled by the first resolve/reject only.
waitListener(s, k, data) ==
    [s EXCEPT !.waits[k] =
        [@ EXCEPT !.timer = IF @ = "armed" THEN "cleared" ELSE @,
                  !.promise = IF @ = "pending" THEN "resolved" ELSE @,
                  !.value = IF s.waits[k].promise = "pending" THEN data ELSE @]]

IsPipeFn(fn) == \E k \in 1..Len(PipeNames) : PipeNames[k] = fn
PipeIndex(fn) == CHOOSE k \in 1..Len(PipeNames) : PipeNames[k] = fn

\* emit of the target bus, a ReactiveEventSystem of its own whose callbacks
\* never call the source: its middleware chain (runMiddleware, lines
\* 701-736) is summed up by what it returns, chain, and its listeners get
\* the chain's result.  `by` is the pipe whose listener made the call.
targetEmit(tg, event, data, k) ==
    [tg EXCEPT !.received = Append(@,
        [event |-> event, data |-> data, by |-> k,
         got |-> IF tg.chain # Void THEN tg.chain ELSE data])]

\* (mutant) the forwarding listener does nothing
pipeListenerSilent(s, k, data) == s

\* The listener pipe() registers (lines 621-623): toBus.emit(targetEvent, data)
pipeListener(s, k, data) ==
    [s EXCEPT !.target = targetEmit(@, s.pipes[k].targetEvent, data, k)]

IsStreamFn(fn) == \E k \in 1..Len(StreamNames) : StreamNames[k] = fn
StreamIndex(fn) == CHOOSE k \in 1..Len(StreamNames) : StreamNames[k] = fn

\* (mutant) the stream's listener stores the payload and does not count
streamListenerNoCount(s, k, data) ==
    [s EXCEPT !.streams[k].value = data]

\* The listener stream() registers (lines 504-509)
streamListener(s, k, data) ==
    [s EXCEPT !.streams[k].value = data, !.streams[k].count = @ + 1]

\* What a listener the bus itself made does when it is called.
Builtin(s, listener, data) ==
    IF IsPipeFn(listener.fn) THEN pipeListener(s, PipeIndex(listener.fn), data)
    ELSE IF IsStreamFn(listener.fn)
         THEN streamListener(s, StreamIndex(listener.fn), data)
    ELSE s

\* A callback is entered: the activation is suspended in it.
Invoke(s, fr, cb) ==
    LET entry == [ph |-> fr.pc, cb |-> cb, data |-> fr.data,
                  stale |-> cb \in fr.cleared /\ (fr.pc = "once" \/ fr.det)]
        fr1 == [fr EXCEPT !.cur = cb, !.idx = @ + 1, !.log = Append(@, entry)]
    IN [s EXCEPT !.stack = Append(@, fr1),
                 !.calls = IF cb.w > 0 /\ fr.pc = "once"
                           THEN [@ EXCEPT ![cb.w] = @ + 1] ELSE @]

\* return hasListeners (line 349)
Return(s, fr) ==
    [s EXCEPT !.ret = [Ret("emit", fr.event, NoCallback) EXCEPT
                          !.fr = [fr EXCEPT !.cur = NoCallback]]]

\* (mutant) the onceWrapper calls the listener without calling off first
NextOnceNoOff(s, fr) ==
    IF fr.idx < Len(fr.snap)
    THEN LET wrapper == fr.snap[fr.idx + 1]
             s2 == IF IsWaitFn(wrapper.fn)
                   THEN waitListener(s, WaitIndex(wrapper.fn), fr.data)
                   ELSE s
         IN Invoke(s2, fr, wrapper)
    ELSE Return(s, fr)

\* (mutant) the drain passes over a wrapper that was removed after the copy
\* was made
NextOnceLive(s, fr) ==
    LET left == SelectSeq(SubSeq(fr.snap, fr.idx + 1, Len(fr.snap)),
                          LAMBDA w : /\ w \notin fr.cleared
                                     /\ << fr.event, w >> \notin Gone(s.caps))
    IN IF left # << >>
       THEN LET wrapper == Head(left)
                s1 == off(s, fr.event, wrapper)
                s2 == IF IsWaitFn(wrapper.fn)
                      THEN waitListener(s1, WaitIndex(wrapper.fn), fr.data)
                      ELSE s1
            IN Invoke(s2, [fr EXCEPT !.idx = IndexOf(fr.snap, wrapper) - 1], wrapper)
       ELSE Return(s, fr)

\* callListeners(listenersToCall, ...) over the private copy (line 340).
\* A onceWrapper first calls this.off(event, onceWrapper) (line 258), then
\* the listener it wraps (line 259).
NextOnce(s, fr) ==
    IF fr.idx < Len(fr.snap)
    THEN LET wrapper == fr.snap[fr.idx + 1]
             s1 == off(s, fr.event, wrapper)
             s2 == IF IsWaitFn(wrapper.fn)
                   THEN waitListener(s1, WaitIndex(wrapper.fn), fr.data)
                   ELSE s1
         IN Invoke(s2, fr, wrapper)
    ELSE Return(s, fr)

\* (mutant) the once branch forgets hasListeners = true
EnterOnceNoFlag(s, fr) ==
    LET onceListeners == MapGet(s.onceEvents, fr.event)
    IN IF Len(onceListeners) > 0
       THEN NextOnce([s EXCEPT !.onceEvents[fr.event] = << >>],
                     [fr EXCEPT !.pc = "once", !.idx = 0, !.snap = onceListeners])
       ELSE Return(s, fr)

\* (mutant) the once set is copied but the live set is not cleared
EnterOnceNoClear(s, fr) ==
    LET onceListeners == MapGet(s.onceEvents, fr.event)
    IN IF Len(onceListeners) > 0
       THEN NextOnce(s, [fr EXCEPT !.has = TRUE, !.pc = "once", !.idx = 0,
                                   !.snap = onceListeners])
       ELSE Return(s, fr)

\* lines 332-346: copy the once set, clear the live one, call the copy
EnterOnce(s, fr) ==
    LET onceListeners == MapGet(s.onceEvents, fr.event)
    IN IF Len(onceListeners) > 0
       THEN NextOnce([s EXCEPT !.onceEvents[fr.event] = << >>],
                     [fr EXCEPT !.has = TRUE, !.pc = "once", !.idx = 0,
                                !.snap = onceListeners, !.drain0 = Len(s.calls)])
       ELSE Return(s, fr)

\* (mutant) the event's chain runs before the wildcard chain
IteratedEventFirst(s, fr) ==
    IF fr.det THEN fr.list
    ELSE IF fr.pc = "reg" THEN MapGet(s.events, fr.event)
    ELSE IF fr.pc = "mwE" THEN MapGet(s.middleware, "*")
    ELSE MapGet(s.middleware, fr.event)

\* The Set or Array the activation iterates: the live one of the Map, or
\* the object it still holds after the Map dropped it (fr.det).
Iterated(s, fr) ==
    IF fr.det THEN fr.list
    ELSE IF fr.pc = "reg" THEN MapGet(s.events, fr.event)
    ELSE IF fr.pc = "mwE" THEN MapGet(s.middleware, fr.event)
    ELSE MapGet(s.middleware, "*")

\* (mutant) the persistent listeners are iterated from a copy made when
\* emit was called
NextRegularSnapshot(s, fr) ==
    LET listeners == fr.reg0
    IN IF fr.idx < Len(listeners)
       THEN LET listener == listeners[fr.idx + 1]
            IN Invoke(Builtin(s, listener, fr.data), fr, listener)
       ELSE EnterOnce(s, [fr EXCEPT !.regEnd = listeners, !.det = FALSE,
                                    !.list = << >>])

\* callListeners(regularListeners, ...) over the live Set (line 328)
NextRegular(s, fr) ==
    LET listeners == Iterated(s, fr)
    IN IF fr.idx < Len(listeners)
       THEN LET listener == listeners[fr.idx + 1]
            IN Invoke(Builtin(s, listener, fr.data), fr, listener)
       ELSE EnterOnce(s, [fr EXCEPT !.regEnd = listeners, !.det = FALSE,
                                    !.list = << >>])

\* The streams whose listener is in the Set of the event when an emit
\* begins to deliver: the emission is due to them.
Due(s, event) ==
    [k \in 1..Len(s.streams) |->
        IF /\ s.streams[k].event = event
           /\ Fn(StreamNames[k]) \in Range(MapGet(s.events, event))
        THEN [s.streams[k] EXCEPT !.due = @ + 1]
        ELSE s.streams[k]]

\* (mutant) the batch forgets totalEventsEmitted++
EnterRegularNoCount(s, fr) ==
    LET s1 == [s EXCEPT !.reactiveState.lastEmittedEvent = fr.event]
        fr1 == [fr EXCEPT !.det = FALSE, !.list = << >>]
    IN IF Len(MapGet(s.events, fr.event)) > 0
       THEN NextRegular(s1, [fr1 EXCEPT !.has = TRUE, !.pc = "reg", !.idx = 0])
       ELSE EnterOnce(s1, fr1)

\* (mutant) lastEmittedEvent is written only when the event has listeners
EnterRegularLastIfHeard(s, fr) ==
    LET heard == Len(MapGet(s.events, fr.event)) + Len(MapGet(s.onceEvents, fr.event)) > 0
        s1 == [s EXCEPT !.reactiveState.totalEventsEmitted = @ + 1,
                        !.reactiveState.lastEmittedEvent =
                            IF heard THEN fr.event ELSE @]
        fr1 == [fr EXCEPT !.det = FALSE, !.list = << >>]
    IN IF Len(MapGet(s.events, fr.event)) > 0
       THEN NextRegular(s1, [fr1 EXCEPT !.has = TRUE, !.pc = "reg", !.idx = 0])
       ELSE EnterOnce(s1, fr1)

\* lines 319-329: the batch begins; counters, then the regular listeners
EnterRegular(s, fr) ==
    LET s1 == [s EXCEPT !.reactiveState.totalEventsEmitted = @ + 1,
                        !.reactiveState.lastEmittedEvent = fr.event,
                        !.streams = Due(s, fr.event)]
        fr1 == [fr EXCEPT !.det = FALSE, !.list = << >>]
    IN IF Len(MapGet(s.events, fr.event)) > 0
       THEN NextRegular(s1, [fr1 EXCEPT !.has = TRUE, !.pc = "reg", !.idx = 0])
       ELSE EnterOnce(s1, fr1)

\* lines 721-733: for (const middleware of eventMiddlewares)
NextEventMiddleware(s, fr) ==
    LET eventMiddlewares == Iterated(s, fr)
    IN IF fr.idx < Len(eventMiddlewares)
       THEN Invoke(s, fr, eventMiddlewares[fr.idx + 1])
       ELSE EnterRegular(s, fr)

EnterEventMiddleware(s, fr) ==
    LET fr1 == [fr EXCEPT !.det = FALSE, !.list = << >>]
    IN IF Len(MapGet(s.middleware, fr.event)) > 0
       THEN NextEventMiddleware(s, [fr1 EXCEPT !.pc = "mwE", !.idx = 0])
       ELSE EnterRegular(s, fr1)

\* lines 704-718: for (const middleware of globalMiddlewares)
NextGlobalMiddleware(s, fr) ==
    LET globalMiddlewares == Iterated(s, fr)
    IN IF fr.idx < Len(globalMiddlewares)
       THEN Invoke(s, fr, globalMiddlewares[fr.idx + 1])
       ELSE EnterEventMiddleware(s, fr)

\* runMiddleware entered (line 316)
EnterGlobalMiddleware(s, fr) ==
    IF Len(MapGet(s.middleware, "*")) > 0
    THEN NextGlobalMiddleware(s, [fr EXCEPT !.pc = "mwG", !.idx = 0])
    ELSE EnterEventMiddleware(s, fr)

\* The callback of the activation has finished: on with the loop it is in.
Continue(s, fr) ==
    IF fr.pc = "mwG" THEN NextGlobalMiddleware(s, fr)
    ELSE IF fr.pc = "mwE" THEN NextEventMiddleware(s, fr)
    ELSE IF fr.pc = "reg" THEN NextRegular(s, fr)
    ELSE NextOnce(s, fr)

----------------------------------------------------------------------------
(* The other methods, as operators on the machine state *)

\* `if (event)` (line 375): undefined and the empty string are falsy
NoEvent == "<undefined>"
Truthy(event) == event # NoEvent /\ event # ""

\* (mutant) on without the typeof test
onUnchecked(s, event, listener) ==
    updateMetrics([s EXCEPT !.events =
        MapSet(s.events, event, SetAdd(MapGet(s.events, event), listener))])

\* on (lines 219-240): throws a TypeError (the state returned is the one
\* given) unless listener is a function; options.reactive only creates an
\* effect nobody reads
on(s, event, listener) ==
    IF ~IsFunction(listener) THEN s
    ELSE updateMetrics([s EXCEPT !.events =
            MapSet(s.events, event, SetAdd(MapGet(s.events, event), listener))])

\* (mutant) emit iterates the once Set itself instead of a copy: a wrapper
\* added while the Set is iterated is visited too
onceSeenByDrain(s, event, onceWrapper) ==
    IF ~IsFunction(onceWrapper) THEN s
    ELSE updateMetrics([s EXCEPT
            !.onceEvents = MapSet(s.onceEvents, event,
                                  SetAdd(MapGet(s.onceEvents, event), onceWrapper)),
            !.calls = Append(@, 0),
            !.stack = [i \in 1..Len(s.stack) |->
                          IF s.stack[i].pc = "once" /\ s.stack[i].event = event
                          THEN [s.stack[i] EXCEPT !.snap = Append(@, onceWrapper)]
                          ELSE s.stack[i]]])

\* once (lines 251-285): the same typeof test, then the Set gets the fresh
\* onceWrapper
once(s, event, onceWrapper) ==
    IF ~IsFunction(onceWrapper) THEN s
    ELSE updateMetrics([s EXCEPT
            !.onceEvents = MapSet(s.onceEvents, event,
                                  SetAdd(MapGet(s.onceEvents, event), onceWrapper)),
            !.calls = Append(@, 0)])

\* (mutant) listenerCount forgets the once Set
listenerCountRegular(s, event) == Len(MapGet(s.events, event))

\* listenerCount (lines 359-365): `?.size ?? 0` of both Sets
listenerCount(s, event) ==
    LET regularCount == Len(MapGet(s.events, event))
        onceCount == Len(MapGet(s.onceEvents, event))
    IN regularCount + onceCount

\* getMetrics().totalListeners (lines 543-548)
totalListeners(s) ==
    SumSizes(s.events, DOMAIN s.events) + SumSizes(s.onceEvents, DOMAIN s.onceEvents)

\* eventNames (lines 404-412): the keys of both Maps, put in one Set
eventNames(s) == DOMAIN s.events \cup DOMAIN s.onceEvents

\* hasListeners (lines 421-424)
hasListeners(s, event) == listenerCount(s, event) > 0

\* A Map entry is dropped while activations iterate the Set or Array it
\* held: the object lives on in those activations, out of the bus's reach.
Detach(s, phases, keys) ==
    [s EXCEPT !.stack =
        [i \in 1..Len(s.stack) |->
            LET fr == s.stack[i]
                key == IF fr.pc = "mwG" THEN "*" ELSE fr.event
            IN IF fr.pc \in phases /\ ~fr.det /\ key \in keys
               THEN [fr EXCEPT !.det = TRUE, !.list = Iterated(s, fr)]
               ELSE fr]]

\* The listeners an activation has still to invoke in the loop it is in.
Pending(s, fr) ==
    LET listeners == IF fr.pc = "reg" THEN Iterated(s, fr)
                     ELSE IF fr.pc = "once" THEN fr.snap ELSE << >>
    IN {listeners[k] : k \in (fr.idx + 1)..Len(listeners)}
\* The activations on the given events note what the call found.
Clear(s, keys) ==
    [s EXCEPT !.stack =
        [i \in 1..Len(s.stack) |->
            LET fr == s.stack[i]
            IN IF fr.event \in keys
               THEN [fr EXCEPT !.cleared = @ \cup Pending(s, fr)
                                   \cup Range(MapGet(s.events, fr.event))
                                   \cup Range(MapGet(s.onceEvents, fr.event))]
               ELSE fr]]

\* removeAllListeners (lines 373-396)
removeAllListeners(s, event) ==
    IF Truthy(event)
    THEN LET s1 == Detach(Clear(s, {event}), {"reg"}, {event} \cap DOMAIN s.events)
         IN updateMetrics([s1 EXCEPT !.events = MapDelete(s.events, event),
                                     !.onceEvents = MapDelete(s.onceEvents, event)])
    ELSE LET s1 == Detach(Clear(s, EventNames), {"reg"}, DOMAIN s.events)
         IN updateMetrics([s1 EXCEPT !.events = EmptyMap, !.onceEvents = EmptyMap])

\* (mutant) destroy forgets this.middleware.clear()
destroyKeepsMiddleware(s) == removeAllListeners(s, NoEvent)

\* destroy (lines 637-642); computedMetrics holds nothing a method reads
destroy(s) ==
    LET s1 == removeAllListeners(s, NoEvent)
        s2 == Detach(s1, {"mwG", "mwE"}, DOMAIN s1.middleware)
    IN [s2 EXCEPT !.middleware = EmptyMap]

\* use (lines 449-459): the typeof test, then push
use(s, event, mw) ==
    IF ~IsFunction(mw) THEN s
    ELSE [s EXCEPT !.middleware =
            MapSet(s.middleware, event, Append(MapGet(s.middleware, event), mw))]

\* the closure use() returns (lines 461-469): indexOf, splice
unregister(s, event, mw) ==
    LET middlewares == MapGet(s.middleware, event)
        index == IndexOf(middlewares, mw)
    IN IF MapHas(s.middleware, event) /\ index > 0
       THEN [s EXCEPT !.middleware =
                MapSet(s.middleware, event, RemoveAt(middlewares, index))]
       ELSE s

\* waitFor (lines 572-593): the executor arms the timer `if (timeout)`,
\* then registers the listener with once().
waitFor(s, event, timeout, k, onceWrapper) ==
    LET armed == timeout # NoTimeout /\ timeout # 0
        s1 == [s EXCEPT !.waits = Append(@,
                  [event |-> event, timeout |-> timeout,
                   timer |-> IF armed THEN "armed" ELSE "none",
                   promise |-> "pending", value |-> Void, error |-> "",
                   wrapper |-> onceWrapper,
                   active0 |-> s.reactiveState.activeListeners])]
    IN once(s1, event, onceWrapper)

\* pipe (lines 617-630): targetEvent = toEvent ?? fromEvent, then on() with
\* the fresh forwarding listener
pipe(s, fromEvent, toEvent, listener) ==
    LET targetEvent == IF toEvent = NoEvent THEN fromEvent ELSE toEvent
        s1 == [s EXCEPT !.pipes = Append(@,
                  [fromEvent |-> fromEvent, toEvent |-> toEvent,
                   targetEvent |-> targetEvent, installed |-> TRUE])]
    IN on(s1, fromEvent, listener)

\* the closure pipe() returns (lines 627-629): off(fromEvent, listener)
unpipe(s, k) ==
    LET s1 == off(s, s.pipes[k].fromEvent, Fn(PipeNames[k]))
    IN [s1 EXCEPT !.pipes[k].installed = FALSE]

\* The emit(event) activations that are delivering to the live Set of the
\* event: a listener added now is still invoked by them.
Delivering(s, event) ==
    {i \in 1..Len(s.stack) :
        s.stack[i].event = event /\ s.stack[i].pc = "reg" /\ ~s.stack[i].det}

\* stream (lines 497-520): the cell, then on(event, listener); the effect
\* of { reactive: true } (lines 648-660) reads one counter and does nothing
stream(s, event, listener) ==
    LET s1 == [s EXCEPT !.streams = Append(@,
                  [event |-> event, value |-> Void, count |-> 0,
                   due |-> Cardinality(Delivering(s, event)),
                   destroyed |-> FALSE])]
    IN on(s1, event, listener)

\* (mutant) destroy() removes every listener of the stream's event
streamDestroyAll(s, k) ==
    [removeAllListeners(s, s.streams[k].event) EXCEPT !.streams[k].destroyed = TRUE]

\* destroy of the stream (line 515): off(event, listener)
streamDestroy(s, k) ==
    [off(s, s.streams[k].event, Fn(StreamNames[k])) EXCEPT
        !.streams[k].destroyed = TRUE]

\* the timer's callback (lines 585-588): off(event, listener), reject
timeoutFired(s, k) ==
    LET s1 == off(s, s.waits[k].event, Fn(WaitNames[k]))
    IN [s1 EXCEPT !.waits[k] =
          [@ EXCEPT !.timer = "fired",
                    !.promise = IF @ = "pending" THEN "rejected" ELSE @,
                    !.error = IF s.waits[k].promise = "pending"
                              THEN s.waits[k].event ELSE @]]

\* (mutant) no try/catch around the listener: the error leaves emit
listenerThrewUncaught(s, fr) ==
    [s EXCEPT !.ret = [Ret("emit", fr.event, NoCallback) EXCEPT
                          !.threw = TRUE, !.fr = [fr EXCEPT !.cur = NoCallback]]]

\* catch (lines 684-692): errorCount++, then the handler or console.error
listenerThrew(s, fr) ==
    LET s1 == [s EXCEPT !.reactiveState.errorCount = @ + 1,
                        !.thrown = @ + 1,
                        !.handled = IF errorHandler THEN @ + 1 ELSE @]
    IN Continue(s1, [fr EXCEPT !.errs = @ + 1])

\* (mutant) the result is assigned without the undefined/null test
middlewareReturnedUnchecked(s, fr, result) ==
    Continue(s, [fr EXCEPT !.data = result, !.replaced = result # Void])

\* lines 710-713 and 725-728: a result other than undefined/null replaces
\* the payload
middlewareReturned(s, fr, result) ==
    Continue(s, IF result # Void
                THEN [fr EXCEPT !.data = result, !.replaced = TRUE]
                ELSE fr)

\* (mutant) one try/catch around the whole loop: an error ends the chain
middlewareThrewEndsChain(s, fr) ==
    EnterRegular(s, [fr EXCEPT !.mwErrs = @ + 1])

\* (mutant) the middleware error is counted like a listener error
middlewareThrewCounted(s, fr) ==
    Continue([s EXCEPT !.reactiveState.errorCount = @ + 1],
             [fr EXCEPT !.mwErrs = @ + 1])

\* catch (lines 714-716, 729-731): console.error only
middlewareThrew(s, fr) == Continue(s, [fr EXCEPT !.mwErrs = @ + 1])

listenerReturned(s, fr) == Continue(s, fr)

----------------------------------------------------------------------------
(* Actions *)

NoMetrics == [lastEmittedEvent |-> "", totalEventsEmitted |-> 0,
              activeListeners |-> 0, errorCount |-> 0]

Init ==
    /\ events = EmptyMap
    /\ onceEvents = EmptyMap
    /\ middleware = EmptyMap
    /\ reactiveState = NoMetrics
    /\ errorHandler \in BOOLEAN
    /\ stack = << >>
    /\ waits = << >>
    /\ wrappers = << >>
    /\ calls = << >>
    /\ thrown = 0
    /\ handled = 0
    /\ offed = {}
    /\ caps = NoCaps
    /\ pipes = << >>
    /\ target = [chain |-> Void, received |-> << >>]
    /\ streams = << >>
    /\ uses = << >>
    /\ emits = 0
    /\ ops = 0
    /\ ret = NoRet

\* Who may call a method now: top-level code, or the user callback that
\* runs in the innermost activation (waitFor's own listener calls nothing).
InCallback == stack # << >>
Running == Top(stack).cur
Callable ==
    /\ ops < MaxOps
    /\ InCallback => Running.fn \in Funcs \cup Mids

\* The activations on the stack note the method their callback called.
During(stk, op) == [i \in 1..Len(stk) |-> [stk[i] EXCEPT !.during = @ \cup {op}]]

\* A method other than emit was called and returned, or threw the
\* TypeError of on, once and use.
Called(op, event, arg, s) ==
    /\ Assign([s EXCEPT !.ret = [Ret(op, event, arg) EXCEPT
                                    !.threw = ~IsFunction(arg)],
                        !.stack = During(s.stack, op)])
    /\ ops' = ops + 1
    /\ UNCHANGED << errorHandler, emits >>

On(event, f) ==
    /\ Callable
    /\ Called("on", event, Fn(f),
              [on(Cur, event, Fn(f)) EXCEPT
                  !.caps = IF IsFunction(Fn(f)) THEN CapMade(@, << event, Fn(f) >>)
                           ELSE @])
    /\ UNCHANGED wrappers

Once(event, f) ==
    /\ Callable
    /\ LET onceWrapper == OnceWrapper(f, Len(wrappers) + 1)
       IN Called("once", event, onceWrapper,
                 [once(Cur, event, onceWrapper) EXCEPT
                     !.caps = IF IsFunction(onceWrapper)
                              THEN CapMade(@, << event, onceWrapper >>) ELSE @])
    /\ wrappers' = IF f = NotFunction THEN wrappers
                   ELSE Append(wrappers, [event |-> event, fn |-> f,
                                      at |-> emits, in |-> Len(stack)])

\* The onceWrappers around f that are registered for the event and have
\* not run when off(event, f) is called.
Waiting(event, f) ==
    {n \in 1..Len(wrappers) :
        /\ wrappers[n].event = event /\ wrappers[n].fn = f /\ calls[n] = 0
        /\ OnceWrapper(f, n) \in Range(MapGet(onceEvents, event))}

\* off(event, f) with a function the caller holds
Off(event, f) ==
    /\ Callable
    /\ Called("off", event, Fn(f),
              [off(Cur, event, Fn(f)) EXCEPT !.offed = @ \cup Waiting(event, f)])
    /\ UNCHANGED wrappers

\* the closure once() returns (lines 282-284): off(event, onceWrapper)
Unsubscribe(n) ==
    /\ Callable
    /\ wrappers[n].fn \in Funcs
    /\ LET onceWrapper == OnceWrapper(wrappers[n].fn, n)
           key == << wrappers[n].event, onceWrapper >>
       IN Called("unsubscribe", wrappers[n].event, onceWrapper,
                 [off(Cur, wrappers[n].event, onceWrapper) EXCEPT
                     !.caps = CapCalled(@, key)])
    /\ UNCHANGED wrappers

\* the closure on() returns (lines 237-239): off(event, listener); one
\* exists once on(event, f) was called
UnsubscribeOn(event, f) ==
    /\ Callable
    /\ << event, Fn(f) >> \in DOMAIN caps
    /\ Called("unsubscribe", event, Fn(f),
              [off(Cur, event, Fn(f)) EXCEPT
                  !.caps = CapCalled(@, << event, Fn(f) >>)])
    /\ UNCHANGED wrappers

Use(event, m) ==
    /\ Callable
    /\ Called("use", event, Fn(m), use(Cur, event, Fn(m)))
    /\ UNCHANGED wrappers

\* The closure use(event, m) returned is called.  Every closure made for
\* (event, m) runs the same code, and one exists whenever m is in the chain;
\* with m absent the call changes nothing (index is -1).
Unregister(event, m) ==
    /\ Callable
    /\ Fn(m) \in Range(MapGet(middleware, event))
    /\ Called("unregister", event, Fn(m), unregister(Cur, event, Fn(m)))
    /\ UNCHANGED wrappers

\* use(event, m) by a caller that keeps the closure it returns, and a
\* call of the j-th closure kept
UseKept(event, m) ==
    /\ Callable
    /\ Called("use", event, Fn(m),
              [use(Cur, event, Fn(m)) EXCEPT
                  !.uses = Append(@, [event |-> event, mw |-> Fn(m), called |-> FALSE])])
    /\ UNCHANGED wrappers

UnregisterKept(j) ==
    /\ Callable
    /\ Called("unregister", uses[j].event, uses[j].mw,
              [unregister(Cur, uses[j].event, uses[j].mw) EXCEPT
                  !.uses[j].called = TRUE])
    /\ UNCHANGED wrappers

RemoveAllListeners(event) ==
    /\ Callable
    /\ Called("removeAllListeners", event, NoCallback, removeAllListeners(Cur, event))
    /\ UNCHANGED wrappers

\* What the bus held when a call was made, kept with what it returned.
Before(s) == [NoFrame EXCEPT !.active0 = s.reactiveState.activeListeners,
                             !.mw0 = s.middleware]

Destroy ==
    /\ Callable
    /\ Assign([destroy(Cur) EXCEPT
                  !.ret = [Ret("destroy", "", NoCallback) EXCEPT !.fr = Before(Cur)],
                  !.stack = During(@, "destroy")])
    /\ ops' = ops + 1
    /\ UNCHANGED << errorHandler, emits, wrappers >>

WaitFor(event, timeout) ==
    /\ Callable
    /\ Len(waits) < MaxWaits
    /\ LET k == Len(waits) + 1
           onceWrapper == OnceWrapper(WaitNames[k], Len(wrappers) + 1)
       IN /\ Called("waitFor", event, onceWrapper,
                    waitFor(Cur, event, timeout, k, onceWrapper))
          /\ wrappers' = Append(wrappers, [event |-> event, fn |-> WaitNames[k],
                                               at |-> emits, in |-> Len(stack)])

Pipe(fromEvent, toEvent) ==
    /\ Callable
    /\ Len(pipes) < MaxPipes
    /\ LET listener == Fn(PipeNames[Len(pipes) + 1])
       IN Called("pipe", fromEvent, listener, pipe(Cur, fromEvent, toEvent, listener))
    /\ UNCHANGED wrappers

Unpipe(k) ==
    /\ Callable
    /\ Called("unpipe", pipes[k].fromEvent, Fn(PipeNames[k]), unpipe(Cur, k))
    /\ UNCHANGED wrappers

Stream(event) ==
    /\ Callable
    /\ Len(streams) < MaxStreams
    /\ LET listener == Fn(StreamNames[Len(streams) + 1])
       IN Called("stream", event, listener, stream(Cur, event, listener))
    /\ UNCHANGED wrappers

\* stream.subscribe(callback) (line 514): this.on(event, callback)
StreamSubscribe(k, f) ==
    /\ Callable
    /\ Called("subscribe", streams[k].event, Fn(f),
              [on(Cur, streams[k].event, Fn(f)) EXCEPT
                  !.caps = CapMade(@, << streams[k].event, Fn(f) >>)])
    /\ UNCHANGED wrappers

StreamDestroy(k) ==
    /\ Callable
    /\ Called("stream.destroy", streams[k].event, Fn(StreamNames[k]),
              streamDestroy(Cur, k))
    /\ UNCHANGED wrappers

\* use() of the target bus with a middleware that returns `result`
TargetUse(result) ==
    /\ Callable
    /\ target.chain = Void
    /\ Called("target.use", "", NoCallback, [Cur EXCEPT !.target.chain = result])
    /\ UNCHANGED wrappers

\* A timer fires between two tasks of the event loop, never inside one.
TimerFires(k) ==
    /\ stack = << >>
    /\ waits[k].timer = "armed"
    /\ Assign([timeoutFired(Cur, k) EXCEPT !.ret = Ret("timeout", waits[k].event, NoCallback)])
    /\ UNCHANGED << errorHandler, emits, ops, wrappers >>

Emit(event, data) ==
    /\ Callable
    /\ Len(stack) < MaxDepth
    /\ Assign(EnterGlobalMiddleware(
                  [Cur EXCEPT !.ret = NoRet, !.stack = During(stack, "emit")],
                  NewFrame(Cur, event, data)))
    /\ emits' = emits + 1
    /\ ops' = ops + 1
    /\ UNCHANGED << errorHandler, wrappers >>

\* The running callback ends; the activation goes on.
Resume(s) ==
    /\ Assign(s)
    /\ UNCHANGED << errorHandler, emits, ops, wrappers >>

Popped == [Cur EXCEPT !.stack = Pop(stack), !.ret = NoRet]

MiddlewareReturns(result) ==
    /\ InCallback
    /\ Top(stack).pc \in {"mwG", "mwE"}
    /\ Resume(middlewareReturned(Popped, Top(stack), result))

MiddlewareThrows ==
    /\ InCallback
    /\ Top(stack).pc \in {"mwG", "mwE"}
    /\ Resume(middlewareThrew(Popped, Top(stack)))

ListenerReturns ==
    /\ InCallback
    /\ Top(stack).pc \in {"reg", "once"}
    /\ Resume(listenerReturned(Popped, Top(stack)))

ListenerThrows ==
    /\ InCallback
    /\ Top(stack).pc \in {"reg", "once"}
    /\ Running.fn \in Funcs
    /\ Resume(listenerThrew(Popped, Top(stack)))

\* The listener registry and the dispatch engine.
Next ==
    \/ \E e \in EventNames, f \in Funcs : On(e, f)
    \/ \E e \in EventNames, f \in Funcs : Once(e, f)
    \/ \E e \in EventNames, f \in Funcs : Off(e, f)
    \/ \E n \in 1..Len(wrappers) : Unsubscribe(n)
    \/ \E e \in EventNames, f \in Funcs : UnsubscribeOn(e, f)
    \/ \E e \in EventNames \cup {"", NoEvent} : RemoveAllListeners(e)
    \/ Destroy
    \/ \E e \in EventNames : Emit(e, 1)
    \/ ListenerReturns
    \/ ListenerThrows

Spec == Init /\ [][Next]_vars

\* The middleware chain in front of the dispatch engine: top-level code
\* sets the bus up and emits; a middleware may change the chains while it
\* runs.
TopLevel == stack = << >>
InMiddleware == IF stack = << >> THEN FALSE ELSE Top(stack).pc \in {"mwG", "mwE"}

NextMiddleware ==
    \/ TopLevel /\ On("a", "f")
    \/ TopLevel /\ Once("a", "f")
    \/ \E e \in EventNames, m \in Mids : (TopLevel \/ InMiddleware) /\ Use(e, m)
    \/ \E e \in EventNames, m \in Mids : (TopLevel \/ InMiddleware) /\ Unregister(e, m)
    \/ TopLevel /\ RemoveAllListeners(NoEvent)
    \/ (TopLevel \/ InMiddleware) /\ Destroy
    \/ \E e \in EventNames : TopLevel /\ Emit(e, 1)
    \/ \E r \in Payloads \cup {Void} : MiddlewareReturns(r)
    \/ MiddlewareThrows
    \/ ListenerReturns
    \/ ListenerThrows

SpecMiddleware == Init /\ [][NextMiddleware]_vars

\* waitFor: the once-listener against the timer.
NextWait ==
    \/ \E e \in EventNames : On(e, "f")
    \/ \E e \in EventNames : Off(e, "f")
    \/ \E e \in EventNames, t \in Timeouts : WaitFor(e, t)
    \/ \E k \in 1..Len(waits) : TimerFires(k)
    \/ \E e \in EventNames, d \in Payloads : Emit(e, d)
    \/ ListenerReturns
    \/ ListenerThrows

SpecWait == Init /\ [][NextWait]_vars

\* Registration with arguments of any type.
NextInvalid ==
    \/ \E e \in EventNames, x \in Funcs \cup {NotFunction} : On(e, x)
    \/ \E e \in EventNames, x \in Funcs \cup {NotFunction} : Once(e, x)
    \/ \E e \in EventNames, x \in Mids \cup {NotFunction} : Use(e, x)
    \/ \E e \in EventNames : TopLevel /\ Emit(e, 1)
    \/ MiddlewareReturns(Void)
    \/ ListenerReturns

SpecInvalid == Init /\ [][NextInvalid]_vars

\* Forwarding to a second bus.
NextPipe ==
    \/ TopLevel /\ On("a", "f")
    \/ TopLevel /\ Use("a", "m")
    \/ \E r \in Payloads : TopLevel /\ TargetUse(r)
    \/ \E to \in TargetEvents \cup {NoEvent} : TopLevel /\ Pipe("a", to)
    \/ \E k \in 1..Len(pipes) : Unpipe(k)
    \/ \E e \in EventNames, d \in Payloads : TopLevel /\ Emit(e, d)
    \/ \E r \in Payloads \cup {Void} : MiddlewareReturns(r)
    \/ ListenerReturns
    \/ ListenerThrows

SpecPipe == Init /\ [][NextPipe]_vars

\* The counters of reactiveState: emits from top level, from listeners and
\* from middleware, next to the calls that must not count.
NextCounters ==
    \/ On("a", "f")
    \/ Once("a", "f")
    \/ Off("a", "f")
    \/ Use("a", "m")
    \/ RemoveAllListeners(NoEvent)
    \/ Destroy
    \/ \E e \in EventNames : Emit(e, 1)
    \/ MiddlewareReturns(Void)
    \/ MiddlewareThrows
    \/ ListenerReturns
    \/ ListenerThrows

SpecCounters == Init /\ [][NextCounters]_vars

\* The order of delivery: two functions registered with on and once in any
\* interleaving, from top level or from a callback, behind one middleware.
NextOrder ==
    \/ \E f \in Funcs : On("a", f)
    \/ \E f \in Funcs : Once("a", f)
    \/ Off("a", "f")
    \/ TopLevel /\ Use("a", "m")
    \/ Emit("a", 1)
    \/ \E r \in {2, Void} : MiddlewareReturns(r)
    \/ ListenerReturns

SpecOrder == Init /\ [][NextOrder]_vars

\* A stream next to an ordinary listener, behind one middleware.
NextStream ==
    \/ \E e \in EventNames : Stream(e)
    \/ \E k \in 1..Len(streams) : StreamSubscribe(k, "f")
    \/ \E k \in 1..Len(streams) : StreamDestroy(k)
    \/ \E e \in EventNames : UnsubscribeOn(e, "f")
    \/ On("a", "g")
    \/ RemoveAllListeners("a")
    \/ TopLevel /\ Use("a", "m")
    \/ \E e \in EventNames, d \in Payloads : Emit(e, d)
    \/ \E r \in {2, Void} : MiddlewareReturns(r)
    \/ ListenerReturns
    \/ ListenerThrows

SpecStream == Init /\ [][NextStream]_vars

\* Middleware registered more than once and the closures use() returned.
NextUnregister ==
    \/ \E e \in EventNames, m \in Mids : TopLevel /\ UseKept(e, m)
    \/ \E j \in 1..Len(uses) : UnregisterKept(j)
    \/ TopLevel /\ On("a", "f")
    \/ TopLevel /\ Emit("a", 1)
    \/ MiddlewareReturns(Void)
    \/ ListenerReturns

SpecUnregister == Init /\ [][NextUnregister]_vars

\* The running middleware is iterating the chain of the event, and m stands
\* in it at the position of the running middleware or before.
Earlier(event, m) ==
    LET fr == Top(stack)
        key == IF fr.pc = "mwG" THEN "*" ELSE fr.event
    IN /\ event = key
       /\ ~fr.det
       /\ IndexOf(MapGet(middleware, event), Fn(m)) \in 1..fr.idx

\* A middleware that unregisters itself, or one that ran before it, while
\* the chain runs.
NextChain ==
    \/ \E e \in EventNames, m \in Mids : TopLevel /\ Use(e, m)
    \/ \E e \in EventNames, m \in Mids :
          InMiddleware /\ Earlier(e, m) /\ Unregister(e, m)
    \/ TopLevel /\ On("a", "f")
    \/ TopLevel /\ Emit("a", 1)
    \/ \E r \in {2, Void} : MiddlewareReturns(r)
    \/ MiddlewareThrows
    \/ ListenerReturns

SpecChain == Init /\ [][NextChain]_vars

\* The host runs a timer that is due, and a listener that was entered
\* returns: no callback of the model runs forever.
FairSpecWait ==
    /\ SpecWait
    /\ WF_vars(\E k \in 1..Len(waits) : TimerFires(k))
    /\ WF_vars(ListenerReturns)

----------------------------------------------------------------------------
(* Shorthands for the properties *)

Returned(op) == ret.op = op
Done == ret.fr
Present(n) ==
    OnceWrapper(wrappers[n].fn, n) \in Range(MapGet(onceEvents, wrappers[n].event))
\* The callbacks an activation invoked in one of its loops, in order.
RECURSIVE Invoked(_, _)
Invoked(log, phase) ==
    IF log = << >> THEN << >>
    ELSE IF Head(log).ph = phase THEN << Head(log).cb >> \o Invoked(Tail(log), phase)
    ELSE Invoked(Tail(log), phase)
Removals == {"off", "unsubscribe", "removeAllListeners", "destroy"}

----------------------------------------------------------------------------
\* C1: a once() registration invokes its listener at most once, whatever is
\* called and from wherever; a registration that is still in the once set
\* has not run and one that has run is gone, so a second emit cannot run it
\* again; every registration an emit(E) finds in the once set of E runs in
\* that emission; and when no callback of emit(E) removed a listener, every
\* registration present when emit(E) was called has run exactly once by the
\* time it returns.
C1_OnceAtMostOnce ==
    /\ \A n \in 1..Len(calls) :
          /\ calls[n] <= 1
          /\ Present(n) => calls[n] = 0
    /\ Returned("emit") =>
          /\ Invoked(Done.log, "once") = Done.snap
          /\ \A i \in 1..Len(Done.snap) : calls[Done.snap[i].w] = 1
          /\ Done.during \cap Removals = {} =>
                \A i \in 1..Len(Done.once0) : calls[Done.once0[i].w] = 1

\* the second emit(E) returns; the registration ran once, in the first
C1_Witness ==
    /\ Returned("emit")
    /\ emits = 2
    /\ Len(calls) >= 1
    /\ calls[1] = 1
    /\ wrappers[1].event = Done.event
    /\ Done.snap = << >>
    /\ stack = << >>

----------------------------------------------------------------------------
\* C2: off(E, f) with the function given to once(E, f) removes that
\* registration: it is no longer in the once set of E (listenerCount(E) does
\* not count it) and no later emit(E) invokes f on its account.
C2_OffRemovesOnce ==
    \A n \in offed : ~Present(n) /\ calls[n] = 0

----------------------------------------------------------------------------
\* C3: when the timer of waitFor(E, timeoutMs) fires before any emit(E),
\* the once-listener waitFor registered is gone: it is not in the once set
\* of E, so listenerCount(E) and activeListeners are what they were before
\* the waitFor call, it never runs, and a later emit(E) that finds no other
\* listener returns false.
TimedOut(k) == waits[k].timer = "fired"
C3_TimeoutRemovesListener ==
    /\ \A k \in 1..Len(waits) :
          TimedOut(k) => /\ ~Present(waits[k].wrapper.w)
                         /\ calls[waits[k].wrapper.w] = 0
    /\ Returned("timeout") =>
          \A k \in 1..Len(waits) :
              TimedOut(k) /\ waits[k].event = ret.event
              => reactiveState.activeListeners = waits[k].active0
    /\ Returned("emit") /\ Done.reg0 = << >>
       /\ (\A i \in 1..Len(Done.once0) :
              \E k \in 1..Len(waits) : TimedOut(k) /\ waits[k].wrapper = Done.once0[i])
       => ~Done.has

----------------------------------------------------------------------------
\* C4: with a timeout given (0 included) the promise of waitFor(E, timeoutMs)
\* is eventually settled, and settled once: resolved with the payload of the
\* first emit(E) when that comes before the timer, rejected with the Timeout
\* error naming E otherwise, and never changed after that.
Provided(k) == waits[k].timeout # NoTimeout
Settled(k) == waits[k].promise # "pending"
C4_SettledOnce ==
    /\ \A k \in 1..MaxWaits :
          (Len(waits) >= k /\ Provided(k)) ~> (Len(waits) >= k /\ Settled(k))
    /\ [][\A k \in 1..Len(waits) :
            Settled(k) => /\ waits'[k].promise = waits[k].promise
                          /\ waits'[k].value = waits[k].value
                          /\ waits'[k].error = waits[k].error]_vars
    /\ [](\A k \in 1..Len(waits) :
            /\ waits[k].promise = "rejected" => waits[k].error = waits[k].event
            /\ waits[k].promise = "resolved" => waits[k].value \in Payloads)

----------------------------------------------------------------------------
\* What a finished activation must have done with the listeners: every
\* member of the regular Set at the end of its forEach was invoked, every
\* member of the once snapshot was invoked, in order; and when no callback
\* called the bus, these are the listeners registered when emit was called.
Last(seq) == seq[Len(seq)]
AllListenersInvoked(fr) ==
    /\ Range(fr.regEnd) \subseteq Range(Invoked(fr.log, "reg"))
    /\ Invoked(fr.log, "once") = fr.snap
    /\ fr.during = {} => /\ Invoked(fr.log, "reg") = fr.reg0
                         /\ Invoked(fr.log, "once") = fr.once0
ListenerEntries(fr) == {i \in 1..Len(fr.log) : fr.log[i].ph \in {"reg", "once"}}

----------------------------------------------------------------------------
\* C6: errorCount is the number of listener invocations that threw: a step
\* in which a listener throws adds exactly 1, every other step (a listener
\* or middleware returning, a middleware throwing, removeAllListeners,
\* destroy, ...) leaves it as it is.
C6_ErrorCount ==
    /\ [](reactiveState.errorCount = thrown)
    /\ [][IF ListenerThrows
          THEN reactiveState'.errorCount = reactiveState.errorCount + 1
          ELSE reactiveState'.errorCount = reactiveState.errorCount]_vars

\* of a middleware and two listeners only the second listener threw
C6_Witness ==
    /\ Returned("emit")
    /\ Len(Done.log) = 3
    /\ Done.mwErrs = 0
    /\ Done.errs = 1
    /\ reactiveState.errorCount = 1
    /\ thrown = 1

----------------------------------------------------------------------------
\* C7: when a middleware throws during emit(E, p) the chain goes on: the
\* next middleware of the chain is invoked with the payload as it was
\* before the throwing step, errorCount stays, and emit returns normally
\* having invoked all listeners of E with the chain's final payload.
C7_MiddlewareThrowIsolated ==
    /\ [][MiddlewareThrows =>
            LET fr == Top(stack)
                chain == Iterated(Cur, fr)
            IN /\ reactiveState'.errorCount = reactiveState.errorCount
               /\ IF Len(stack') = Len(stack)
                  THEN /\ Top(stack').data = fr.data
                       /\ Last(Top(stack').log).data = fr.data
                  ELSE Returned("emit")' /\ ret'.fr.data = fr.data
               /\ fr.idx < Len(chain) =>
                     /\ Len(stack') = Len(stack)
                     /\ Top(stack').pc = fr.pc
                     /\ Top(stack').cur = chain[fr.idx + 1]]_vars
    /\ [](Returned("emit") =>
            /\ ~ret.threw
            /\ AllListenersInvoked(Done)
            /\ \A i \in ListenerEntries(Done) : Done.log[i].data = Done.data)

\* two middleware threw one after the other, then the listener got the
\* payload that was emitted
C7_Witness ==
    /\ Returned("emit")
    /\ Done.mwErrs = 2
    /\ Len(Done.log) = 3
    /\ Last(Done.log).ph = "reg"
    /\ Last(Done.log).data = Done.data0
    /\ reactiveState.errorCount = 0

----------------------------------------------------------------------------
\* C8: in one emit(E, p) the middleware registered on '*' runs first, in
\* registration order, then the middleware registered on E, in registration
\* order, and all of it before any listener of E.
Rank(ph) == IF ph = "mwG" THEN 1 ELSE IF ph = "mwE" THEN 2 ELSE 3
Ordered(log) ==
    \A i, j \in 1..Len(log) : i < j => Rank(log[i].ph) <= Rank(log[j].ph)
IsPrefix(a, b) == Len(a) <= Len(b) /\ a = SubSeq(b, 1, Len(a))
ChainChanges == {"use", "unregister", "destroy"}
ChainOrder(fr, finished) ==
    /\ Ordered(fr.log)
    /\ fr.during \cap ChainChanges = {} =>
          LET global == Invoked(fr.log, "mwG")
              specific == Invoked(fr.log, "mwE")
          IN /\ IsPrefix(global, MapGet(fr.mw0, "*"))
             /\ IsPrefix(specific, MapGet(fr.mw0, fr.event))
             /\ finished \/ fr.pc # "mwG" => global = MapGet(fr.mw0, "*")
             /\ finished \/ fr.pc \in {"reg", "once"}
                   => specific = MapGet(fr.mw0, fr.event)
C8_MiddlewareOrder ==
    /\ \A i \in 1..Len(stack) : ChainOrder(stack[i], FALSE)
    /\ Returned("emit") => ChainOrder(Done, TRUE)

\* a wildcard middleware, then another one of the event, then the listener
C8_Witness ==
    /\ Returned("emit")
    /\ Done.event = "a"
    /\ Len(Done.log) = 3
    /\ Done.log[1].ph = "mwG" /\ Done.log[2].ph = "mwE" /\ Done.log[3].ph = "reg"
    /\ Done.log[1].cb # Done.log[2].cb

----------------------------------------------------------------------------
\* C9: a middleware that returns a value replaces the payload for every
\* later middleware and for every listener, regular and once; one that
\* returns nothing leaves it as it is; with no middleware returning a value
\* the listeners get the payload given to emit.
C9_PayloadReplaced ==
    /\ [][\A r \in Payloads \cup {Void} :
            MiddlewareReturns(r) =>
               LET new == IF r = Void THEN Top(stack).data ELSE r
               IN IF Len(stack') = Len(stack)
                  THEN /\ Top(stack').data = new
                       /\ Last(Top(stack').log).data = new
                  ELSE Returned("emit")' /\ ret'.fr.data = new]_vars
    /\ [](Returned("emit") =>
            /\ \A i \in ListenerEntries(Done) : Done.log[i].data = Done.data
            /\ ~Done.replaced =>
                  \A i \in 1..Len(Done.log) : Done.log[i].data = Done.data0)

\* the middleware replaced payload 1 by 2: the regular and the once
\* listener both got 2
C9_Witness ==
    /\ Returned("emit")
    /\ Done.data0 = 1 /\ Done.data = 2
    /\ Len(Done.log) = 3
    /\ Done.log[2].ph = "reg" /\ Done.log[2].data = 2
    /\ Done.log[3].ph = "once" /\ Done.log[3].data = 2

----------------------------------------------------------------------------
\* C10: emit(E, x) returns true exactly when it invoked at least one
\* listener, regular or once; with no listener registered for E it returns
\* false and activeListeners is what it was.
C10_EmitResult ==
    Returned("emit") =>
        /\ Done.has <=> ListenerEntries(Done) # {}
        /\ Done.reg0 = << >> /\ Done.once0 = << >> =>
              /\ ~Done.has
              /\ reactiveState.activeListeners = Done.active0

\* E has only a once listener: emit invoked it and returned true
C10_Witness ==
    /\ Returned("emit")
    /\ Done.has
    /\ Done.reg0 = << >>
    /\ Len(Invoked(Done.log, "once")) = 1

----------------------------------------------------------------------------
\* The activations to look at: the ones in progress and the one that has
\* just returned.  Bus: the fields a method can change.
Frames ==
    {stack[i] : i \in 1..Len(stack)} \cup (IF Returned("emit") THEN {Done} ELSE {})
Bus == << events, onceEvents, middleware, reactiveState >>
NotInvokedOnceGone ==
    \A fr \in Frames : \A i \in ListenerEntries(fr) :
        << fr.event, fr.log[i].cb >> \in fr.gone0 =>
            fr.log[i].ph = "reg" /\ "on" \in fr.during

\* C11 (as stated): after the closure returned by on(E, f) or once(E, f)
\* was called, an emit(E) begun afterwards does not invoke f for that
\* registration unless f was registered again; and any later call of the
\* closure changes nothing.
C11_UnsubscribeAgainNoOp ==
    /\ []NotInvokedOnceGone
    /\ [][\A e \in EventNames, f \in Funcs :
            UnsubscribeOn(e, f) /\ CapStatus(caps, << e, Fn(f) >>) # "fresh"
                => UNCHANGED Bus]_vars
    /\ [][\A n \in 1..Len(wrappers) :
            Unsubscribe(n)
            /\ CapStatus(caps, << wrappers[n].event, OnceWrapper(wrappers[n].fn, n) >>) # "fresh"
                => UNCHANGED Bus]_vars

\* C11 (amended): the same, with the later call of the closure changing
\* nothing as long as f was not registered again since the closure was
\* called.
C11_UnsubscribeStops ==
    /\ []NotInvokedOnceGone
    /\ [][\A e \in EventNames, f \in Funcs :
            UnsubscribeOn(e, f) /\ << e, Fn(f) >> \in Gone(caps)
                => UNCHANGED Bus]_vars
    /\ [][\A n \in 1..Len(wrappers) :
            Unsubscribe(n)
            /\ << wrappers[n].event, OnceWrapper(wrappers[n].fn, n) >> \in Gone(caps)
                => UNCHANGED Bus]_vars

\* on('a', f), its closure called twice, then emit('a') found no listener
C11_Witness ==
    /\ Returned("emit")
    /\ Done.event = "a"
    /\ CapStatus(caps, << "a", Fn("f") >>) = "spent"
    /\ << "a", Fn("f") >> \in Done.gone0
    /\ ~Done.has

----------------------------------------------------------------------------
\* The registrations made so far: every call of on() with a new function
\* and every call of once() made one closure key in caps.  When the number
\* of calls of the API equals the number of keys, every call so far was
\* such a registration.
OnRegistrations(e) == {key \in DOMAIN caps : key[1] = e /\ key[2].w = 0}
OnceRegistrations(e) == {key \in DOMAIN caps : key[1] = e /\ key[2].w > 0}
OnlyRegistrations == ops = Cardinality(DOMAIN caps)
ThenOneEmit ==
    /\ Returned("emit")
    /\ ops = Cardinality(DOMAIN caps) + 1
    /\ Done.during = {}

\* C12: after N on() of distinct functions and M once() on E,
\* listenerCount(E) is N + M; after one emit(E) it is N, the regular
\* listeners all still registered and the once set empty; hasListeners(E)
\* is listenerCount(E) > 0.
C12_ListenerCount ==
    /\ \A e \in EventNames : hasListeners(Cur, e) <=> listenerCount(Cur, e) > 0
    /\ OnlyRegistrations =>
          \A e \in EventNames :
              listenerCount(Cur, e) =
                  Cardinality(OnRegistrations(e)) + Cardinality(OnceRegistrations(e))
    /\ ThenOneEmit =>
          /\ listenerCount(Cur, Done.event) = Cardinality(OnRegistrations(Done.event))
          /\ MapGet(events, Done.event) = Done.reg0
          /\ MapGet(onceEvents, Done.event) = << >>
          /\ \A e \in EventNames \ {Done.event} :
                listenerCount(Cur, e) =
                    Cardinality(OnRegistrations(e)) + Cardinality(OnceRegistrations(e))

\* N = 1 and M = 2 on 'a': emit('a') left listenerCount('a') = 1
C12_Witness ==
    /\ ThenOneEmit
    /\ Done.event = "a"
    /\ Cardinality(OnRegistrations("a")) = 1
    /\ Cardinality(OnceRegistrations("a")) = 2
    /\ Len(Done.once0) = 2
    /\ listenerCount(Cur, "a") = 1
    /\ hasListeners(Cur, "a")

----------------------------------------------------------------------------
\* C13: whenever a call of on, once, off, an unsubscribe closure,
\* removeAllListeners, destroy or emit has returned, and whenever a listener
\* (or, after it threw, the error handler) runs, activeListeners is the sum
\* of the sizes of all regular and once Sets, the value of
\* getMetrics().totalListeners().  The states of the model are exactly
\* these points.
C13_ActiveListeners == reactiveState.activeListeners = totalListeners(Cur)

\* the first of two once listeners runs next to one regular listener: the
\* once set was drained and the metric already says 1
C13_Witness ==
    /\ stack # << >>
    /\ Top(stack).pc = "once"
    /\ Len(Top(stack).snap) = 2
    /\ Top(stack).idx = 1
    /\ Top(stack).active0 = 3
    /\ reactiveState.activeListeners = 1

----------------------------------------------------------------------------
\* How often an activation invoked function f in one of its loops
Times(fr, phase, f) ==
    Cardinality({i \in 1..Len(fr.log) : fr.log[i].ph = phase /\ fr.log[i].cb.fn = f})
Holds(set, f) == \E i \in 1..Len(set) : set[i].fn = f

\* C14: registering the same function again on the same event with the same
\* kind is a set union: a second on(E, f), and a second once(E, f), leaves
\* listenerCount(E) as it is, and one emit(E) whose listeners call nothing
\* invokes f once for that kind.
C14_ReAddIsUnion ==
    /\ [][\A e \in EventNames, f \in Funcs :
            On(e, f) /\ Holds(MapGet(events, e), f)
                => listenerCount(Cur, e)' = listenerCount(Cur, e)]_vars
    /\ [][\A e \in EventNames, f \in Funcs :
            Once(e, f) /\ Holds(MapGet(onceEvents, e), f)
                => listenerCount(Cur, e)' = listenerCount(Cur, e)]_vars
    /\ [](Returned("emit") /\ Done.during = {} =>
            \A f \in Funcs : Times(Done, "reg", f) <= 1 /\ Times(Done, "once", f) <= 1)

----------------------------------------------------------------------------
Counters ==
    << reactiveState.totalEventsEmitted, reactiveState.lastEmittedEvent,
       reactiveState.errorCount >>

\* C17: when destroy() has returned no event is listed, every event has
\* listenerCount 0 and hasListeners false, activeListeners is 0 and no
\* middleware is left; destroy() leaves totalEventsEmitted, lastEmittedEvent
\* and errorCount as they were; an emit made next runs no middleware, calls
\* no listener and returns false.
C17_DestroyClears ==
    /\ [](Returned("destroy") =>
            /\ eventNames(Cur) = {}
            /\ \A e \in EventNames : listenerCount(Cur, e) = 0 /\ ~hasListeners(Cur, e)
            /\ reactiveState.activeListeners = 0
            /\ middleware = EmptyMap)
    /\ [][Destroy => Counters' = Counters]_vars
    /\ [][\A e \in EventNames :
            Returned("destroy") /\ Emit(e, 1) =>
                /\ Returned("emit")'
                /\ ret'.fr.log = << >>
                /\ ~ret'.fr.has]_vars

\* a bus with a middleware and a listener that threw in one emit('a') was
\* destroyed
C17_Witness ==
    /\ Returned("destroy")
    /\ ret.fr.mw0 # EmptyMap
    /\ ret.fr.active0 = 1
    /\ Counters = << 1, "a", 1 >>

----------------------------------------------------------------------------
\* C18: on(E, x), once(E, x) and use(E, x) with an x that is no function
\* throw (a TypeError, synchronously) and leave the listener Sets, the
\* middleware lists, eventNames() and the metrics as they were; with a
\* function they do not throw.
C18_InvalidArgument ==
    /\ [][\A e \in EventNames :
            On(e, NotFunction) \/ Once(e, NotFunction) \/ Use(e, NotFunction) =>
                /\ ret'.threw
                /\ UNCHANGED Bus
                /\ eventNames(Cur)' = eventNames(Cur)]_vars
    /\ [](ret.threw => ~IsFunction(ret.arg))

\* use('a', x) threw on a bus that has a listener and a middleware
C18_Witness ==
    /\ Returned("use")
    /\ ret.threw
    /\ reactiveState.activeListeners >= 1
    /\ middleware # EmptyMap

----------------------------------------------------------------------------
\* C19: eventNames() lists exactly the events that have at least one
\* regular or once listener.
C19_EventNamesExact ==
    eventNames(Cur) = {e \in EventNames : listenerCount(Cur, e) > 0}

----------------------------------------------------------------------------
Listeners(e) == << MapGet(events, e), MapGet(onceEvents, e) >>

\* C20: removeAllListeners(E) with a name given, the empty string included,
\* empties the Sets of E and leaves the listeners of every other event, the
\* middleware and the counters as they were; without argument it empties
\* the Sets of all events.
C20_RemoveAllFrame ==
    /\ [][\A e \in EventNames \cup {""} :
            RemoveAllListeners(e) =>
                /\ listenerCount(Cur, e)' = 0
                /\ \A other \in EventNames \ {e} : Listeners(other)' = Listeners(other)
                /\ middleware' = middleware
                /\ Counters' = Counters]_vars
    /\ [][RemoveAllListeners(NoEvent) =>
                /\ \A e \in EventNames : listenerCount(Cur, e)' = 0
                /\ middleware' = middleware
                /\ Counters' = Counters]_vars

----------------------------------------------------------------------------
\* The emissions the target bus received from pipe k while activation fr
\* of the source ran.
Forwarded(fr, k) ==
    {i \in (fr.tg0 + 1)..Len(target.received) : target.received[i].by = k}

\* C15: while the pipe of source.pipe(a, target, b?) is installed every
\* source.emit(a, p) makes exactly one target.emit(b ?? a, ...), an emit of
\* another event none; after unpipe() source.emit(a, ...) makes none; and
\* unpipe() takes the forwarding listener out of a's Set and nothing else.
\* (Stated for emits whose callbacks call no method of the source.)
C15_PipeForwardsOnce ==
    /\ [](Returned("emit") /\ Done.during = {} =>
            \A k \in 1..Len(pipes) :
                IF pipes[k].installed /\ pipes[k].fromEvent = Done.event
                THEN /\ Cardinality(Forwarded(Done, k)) = 1
                     /\ \A i \in Forwarded(Done, k) :
                           target.received[i].event =
                               IF pipes[k].toEvent = NoEvent
                               THEN pipes[k].fromEvent ELSE pipes[k].toEvent
                ELSE Forwarded(Done, k) = {})
    /\ [][\A k \in 1..Len(pipes) :
            Unpipe(k) =>
                /\ \A e \in EventNames :
                      MapGet(events, e)' =
                          IF e = pipes[k].fromEvent
                          THEN SetDelete(MapGet(events, e), Fn(PipeNames[k]))
                          ELSE MapGet(events, e)
                /\ onceEvents' = onceEvents
                /\ middleware' = middleware
                /\ target' = target]_vars

\* pipe('a', target, 'b'): the first emit('a') was forwarded, then unpipe(),
\* and the second emit('a') was not
C15_Witness ==
    /\ Returned("emit")
    /\ Done.event = "a"
    /\ emits = 2
    /\ Len(pipes) = 1
    /\ ~pipes[1].installed
    /\ Done.tg0 = 1
    /\ Len(target.received) = 1
    /\ target.received[1].event = "b"

----------------------------------------------------------------------------
\* C16: what a pipe forwards is the payload given to source.emit, whatever
\* the source's middleware made of it, and the target's listeners get the
\* target's own middleware chain applied to that payload.
C16_PipeForwardsOriginal ==
    Returned("emit") =>
        \A k \in 1..Len(pipes) : \A i \in Forwarded(Done, k) :
            /\ target.received[i].data = Done.data0
            /\ target.received[i].got =
                  IF target.chain # Void THEN target.chain ELSE Done.data0

----------------------------------------------------------------------------
\* The emit activations that are still in runMiddleware (line 316)
InChain == {i \in 1..Len(stack) : stack[i].pc \in {"mwG", "mwE"}}

\* C23 (as stated): totalEventsEmitted is the number of emit calls begun.
C23_TotalCountsBegun == reactiveState.totalEventsEmitted = emits

\* C23 (amended): totalEventsEmitted is the number of emit calls begun
\* minus those that are still running their middleware: an emit counts
\* itself when its middleware chain has finished, with or without
\* listeners, re-entrant or not, and nothing else changes the counter.
C23_TotalCountsDelivered ==
    reactiveState.totalEventsEmitted = emits - Cardinality(InChain)

\* a listener of the first emit made a second emit, whose middleware runs:
\* two emits begun, one counted
C23_Witness ==
    /\ Len(stack) = 2
    /\ InChain = {2}
    /\ emits = 2
    /\ reactiveState.totalEventsEmitted = 1

----------------------------------------------------------------------------
\* C24 (as stated): when emit(E, x) returns lastEmittedEvent is E, also
\* when its listeners emitted other events; before the first emit it is
\* null.
C24_LastIsReturned ==
    /\ emits = 0 => reactiveState.lastEmittedEvent = ""
    /\ Returned("emit") => reactiveState.lastEmittedEvent = Done.event

\* C24 (amended): when emit(E, x) returns lastEmittedEvent is E provided no
\* callback of that emit called emit itself (with or without listeners of
\* E); it is null as long as no emit has finished its middleware; and it is
\* written only where an emit begins its delivery, with that emit's event.
C24_LastIsLatestDelivery ==
    /\ [](reactiveState.totalEventsEmitted = 0 => reactiveState.lastEmittedEvent = "")
    /\ [](Returned("emit") /\ "emit" \notin Done.during =>
            reactiveState.lastEmittedEvent = Done.event)
    /\ [][reactiveState'.lastEmittedEvent # reactiveState.lastEmittedEvent =>
            /\ reactiveState'.totalEventsEmitted = reactiveState.totalEventsEmitted + 1
            /\ \/ stack' # << >> /\ reactiveState'.lastEmittedEvent = Top(stack').event
               \/ Returned("emit")'
                  /\ reactiveState'.lastEmittedEvent = ret'.fr.event]_vars

\* emit('*') with no listener and no middleware returned after an
\* emit('a'): lastEmittedEvent is '*'
C24_Witness ==
    /\ Returned("emit")
    /\ Done.event = "*"
    /\ ~Done.has
    /\ Done.log = << >>
    /\ emits = 2
    /\ stack = << >>
    /\ reactiveState.lastEmittedEvent = "*"

----------------------------------------------------------------------------
\* The once() registrations on the activation's event made after the
\* activation copied the once Set, i.e. by listeners of its drain
LateOnce(fr) ==
    {n \in (fr.drain0 + 1)..Len(wrappers) : wrappers[n].event = fr.event}
Drained(fr) == fr.pc = "once"

\* C25: a once() registration on E made by a once-listener while emit(E)
\* drains is not invoked in that emission; when the listeners of the drain
\* did nothing but register with once(), it is in the once Set and counted
\* by listenerCount(E) when emit returns; an emit(E) whose listeners remove
\* nothing invokes every registration it finds (so the next one fires it);
\* and an emit(E) made from a once-listener shares no listener with the
\* snapshot being drained, no once-listener running twice.
C25_ResubscribeUnaffected ==
    /\ \A fr \in Frames : Drained(fr) =>
          \A i \in 1..Len(fr.log) : fr.log[i].ph = "once" => fr.log[i].cb.w <= fr.drain0
    /\ Returned("emit") /\ Drained(Done) /\ Done.during \subseteq {"once"} =>
          /\ \A n \in LateOnce(Done) : Present(n) /\ calls[n] = 0
          /\ listenerCount(Cur, Done.event) = Len(Done.reg0) + Cardinality(LateOnce(Done))
    /\ Returned("emit") /\ Done.during \cap Removals = {} =>
          \A i \in 1..Len(Done.once0) : calls[Done.once0[i].w] = 1
    /\ \A i, j \in 1..Len(stack) :
          i < j => Range(stack[i].snap) \cap Range(stack[j].snap) = {}
    /\ \A n \in 1..Len(calls) : calls[n] <= 1

\* the once-listener registered itself again while it ran; the next
\* emit('a') has invoked the new registration
C25_Witness ==
    /\ Returned("emit")
    /\ Done.event = "a"
    /\ emits = 2
    /\ stack = << >>
    /\ Len(wrappers) = 2
    /\ wrappers[1].in = 0
    /\ wrappers[2].in = 1 /\ wrappers[2].at = 1
    /\ Done.reg0 = << >>
    /\ Done.once0 = << OnceWrapper(wrappers[2].fn, 2) >>
    /\ calls = << 1, 1 >>

----------------------------------------------------------------------------
\* b is a with some members deleted, the others in the order they had
Thinned(a, b) == b = SelectSeq(a, LAMBDA x : x \in Range(b))
\* A Set changes by a new member at its end or by members leaving it.
KeepsOrder(a, b) == (IsPrefix(a, b) /\ Len(b) <= Len(a) + 1) \/ Thinned(a, b)

\* C26: the position of a listener in the Set of its event is the position
\* of its registration (a step appends a new member or deletes members,
\* registering a member again changes nothing; once-wrappers stand in the
\* order of their once() calls); an emit invokes its persistent listeners
\* before its once-listeners, both in the order of their Sets when no
\* callback changed them; and every listener of one emission is handed the
\* one payload the middleware chain produced.
C26_DeliveryOrder ==
    /\ [][\A e \in EventNames :
            /\ KeepsOrder(MapGet(events, e), MapGet(events', e))
            /\ KeepsOrder(MapGet(onceEvents, e), MapGet(onceEvents', e))]_vars
    /\ [](\A fr \in Frames :
            /\ \A i, j \in 1..Len(fr.once0) : i < j => fr.once0[i].w < fr.once0[j].w
            /\ \A i, j \in ListenerEntries(fr) :
                  /\ (i < j /\ fr.log[i].ph = "once") => fr.log[j].ph = "once"
                  /\ fr.log[i].data = fr.data /\ fr.log[j].data = fr.log[i].data)
    /\ [](Returned("emit") /\ Done.during = {} =>
            /\ Invoked(Done.log, "reg") = Done.reg0
            /\ Invoked(Done.log, "once") = Done.once0)

\* f is registered with on, g with once, and the middleware replaced the
\* payload: f ran first, then g, both with the replacement
C26_Witness ==
    /\ Returned("emit")
    /\ wrappers = << [event |-> "a", fn |-> "g", at |-> 0, in |-> 0] >>
    /\ Done.reg0 = << Fn("f") >>
    /\ Done.once0 = << OnceWrapper("g", 1) >>
    /\ Done.data0 = 1
    /\ [i \in 1..Len(Done.log) |-> << Done.log[i].ph, Done.log[i].cb.fn, Done.log[i].data >>]
          = << << "mwE", "m", 1 >>, << "reg", "f", 2 >>, << "once", "g", 2 >> >>

----------------------------------------------------------------------------
\* C28: when removeAllListeners(E), removeAllListeners() or destroy() has
\* returned the Sets of E are empty, and no emit(E) invokes a listener the
\* call removed: neither a later one nor the one in progress whose listener
\* made the call, which stops before the listeners that had not run yet.
C28_RemovedNeverInvoked ==
    /\ Returned("removeAllListeners") \/ Returned("destroy") =>
          \A e \in EventNames :
              (e = ret.event \/ ~Truthy(ret.event)) => listenerCount(Cur, e) = 0
    /\ \A fr \in Frames : \A i \in ListenerEntries(fr) : ~fr.log[i].stale

----------------------------------------------------------------------------
Clearing == {"removeAllListeners", "destroy"}
\* The activations that invoked a callback in the step.
Entered(i) ==
    /\ stack'[i].log # << >>
    /\ i > Len(stack) \/ Len(stack[i].log) < Len(stack'[i].log)

\* C29: the persistent listeners of emit(E) are taken from the live Set.  A
\* listener is invoked only if it is in the Set of E at that moment, so one
\* that off(E, h) removed before its turn is not invoked; when the
\* callbacks of the emission only called on and all were persistent
\* listeners, every function they added was invoked after the listeners
\* registered before, in the same emission;
\* when they only removed listeners, the listeners invoked are those of the
\* call in their order, less the removed ones.  (Emissions none of whose
\* callbacks called removeAllListeners or destroy.)
C29_LiveIteration ==
    /\ [][\A i \in 1..Len(stack') :
            LET fr == stack'[i]
            IN (Entered(i) /\ Last(fr.log).ph = "reg" /\ fr.during \cap Clearing = {})
                  => Last(fr.log).cb \in Range(MapGet(events, fr.event))]_vars
    /\ [](Returned("emit") /\ Done.during \subseteq {"on"} /\ Done.snap = << >> =>
            /\ Invoked(Done.log, "reg") = MapGet(events, Done.event)
            /\ IsPrefix(Done.reg0, Invoked(Done.log, "reg")))
    /\ [](Returned("emit") /\ Done.during \subseteq {"off", "unsubscribe"} =>
            /\ Thinned(Done.reg0, Invoked(Done.log, "reg"))
            /\ Range(MapGet(events, Done.event)) \subseteq Range(Invoked(Done.log, "reg")))

\* f, the only listener when emit('a') was called, registered g with on:
\* g ran after f in that emission
C29_Witness ==
    /\ Returned("emit")
    /\ Done.event = "a"
    /\ Done.reg0 = << Fn("f") >>
    /\ Done.during = {"on"}
    /\ Invoked(Done.log, "reg") = << Fn("f"), Fn("g") >>
    /\ emits = 1

----------------------------------------------------------------------------
\* C30: the once-listeners an emit(E) invokes are the members of the copy
\* it made of the once Set, in the copy's order, whatever its callbacks
\* call: while it drains it has invoked the first members of the copy, when
\* it returns all of them, those unsubscribed or cleared by an earlier
\* listener of the drain included.
C30_DrainCompletes ==
    /\ \A i \in 1..Len(stack) :
          Drained(stack[i]) => IsPrefix(Invoked(stack[i].log, "once"), stack[i].snap)
    /\ Returned("emit") => Invoked(Done.log, "once") = Done.snap

\* the first listener of a drain of two called removeAllListeners('a'); the
\* second one, cleared before its turn, was invoked all the same
C30_Witness ==
    /\ Returned("emit")
    /\ Done.event = "a"
    /\ Len(Done.snap) = 2
    /\ "removeAllListeners" \in Done.during
    /\ [i \in 1..Len(Done.log) |-> << Done.log[i].cb, Done.log[i].stale >>]
          = << << Done.snap[1], FALSE >>, << Done.snap[2], TRUE >> >>
    /\ calls = << 1, 1 >>

----------------------------------------------------------------------------
StreamListener(k) == Fn(StreamNames[k])
Registered(k) == StreamListener(k) \in Range(MapGet(events, streams[k].event))
Cell(k) == << streams[k].value, streams[k].count >>
\* The activations that invoked the listener of stream k in the step.
Delivered(k) ==
    {i \in 1..Len(stack') : Entered(i) /\ Last(stack'[i].log).cb = StreamListener(k)
                                       /\ Last(stack'[i].log).ph = "reg"}

\* C21: the cell of stream(E) starts as {value: null, count: 0}; it changes
\* only when an emit(E) invokes the stream's listener, which adds one to
\* count and stores the payload the middleware chain of that emit produced;
\* while the listener is registered count never exceeds the number of
\* emit(E) that began to deliver to it, and equals it when no emit is in
\* progress; when an emit(E) without nested emits returns, value is its
\* processed payload.
C21_StreamCell ==
    /\ [][Len(streams') > Len(streams) =>
            LET cell == streams'[Len(streams')]
            IN cell.value = Void /\ cell.count = 0]_vars
    /\ [][\A k \in 1..Len(streams) :
            Cell(k)' # Cell(k) =>
                \E i \in Delivered(k) :
                    /\ stack'[i].event = streams[k].event
                    /\ Cell(k)' = << stack'[i].data, streams[k].count + 1 >>]_vars
    /\ [](\A k \in 1..Len(streams) :
            Registered(k) =>
                /\ streams[k].count <= streams[k].due
                /\ stack = << >> => streams[k].count = streams[k].due
                /\ (Returned("emit") /\ Done.event = streams[k].event
                       /\ "emit" \notin Done.during
                       /\ StreamListener(k) \in Range(Done.reg0))
                      => streams[k].value = Done.data)

\* two emits on the stream's event, the second with a payload the
\* middleware replaced
C21_Witness ==
    /\ Len(streams) = 1
    /\ streams[1].event = "a"
    /\ Registered(1)
    /\ Returned("emit")
    /\ Done.event = "a" /\ Done.data0 = 1 /\ Done.data = 2
    /\ Cell(1) = << 2, 2 >>
    /\ streams[1].due = 2
    /\ stack = << >>

\* C22: stream.destroy() takes the stream's listener out of the Set of its
\* event and changes nothing else in the bus, so the callbacks subscribed
\* through the stream and the other listeners stay; an emit that begins
\* after it does not invoke the stream's listener, invokes the remaining
\* listeners when its callbacks call nothing, and leaves the cell as it
\* was; the closure subscribe(cb) returned deletes cb from the Set and
\* changes nothing else.
C22_StreamDestroyFrame ==
    /\ [][\A k \in 1..Len(streams) :
            StreamDestroy(k) =>
                /\ events' = [events EXCEPT ![streams[k].event] =
                                 SetDelete(@, StreamListener(k))]
                /\ UNCHANGED << onceEvents, middleware >>
                /\ \A j \in 1..Len(streams) : Cell(j)' = Cell(j)]_vars
    /\ [][\A e \in EventNames :
            UnsubscribeOn(e, "f") =>
                /\ events' = [events EXCEPT ![e] = SetDelete(@, Fn("f"))]
                /\ UNCHANGED << onceEvents, middleware >>
                /\ \A j \in 1..Len(streams) : Cell(j)' = Cell(j)]_vars
    /\ [][\A k \in 1..Len(streams) :
            Cell(k)' # Cell(k) => \E i \in Delivered(k) : k \notin stack'[i].dead0]_vars
    /\ [](\A fr \in Frames : \A k \in fr.dead0 : \A i \in 1..Len(fr.log) :
            fr.log[i].cb # StreamListener(k))
    /\ [](Returned("emit") /\ Done.during = {} => Invoked(Done.log, "reg") = Done.reg0)

\* f subscribed through the stream, the stream was destroyed, and the next
\* emit invoked f alone: the cell is as it was created
C22_Witness ==
    /\ Len(streams) = 1
    /\ Cell(1) = << Void, 0 >>
    /\ streams[1].destroyed
    /\ Returned("emit")
    /\ Done.event = streams[1].event
    /\ Done.dead0 = {1}
    /\ Done.reg0 = << Fn("f") >>
    /\ Invoked(Done.log, "reg") = << Fn("f") >>
    /\ Done.during = {}

----------------------------------------------------------------------------
Occurrences(chain, mw) == Cardinality({i \in 1..Len(chain) : chain[i] = mw})
Others(chain, mw) == SelectSeq(chain, LAMBDA x : x # mw)
\* The closures use(e, mw) returned that were never called.
Unused(e, mw) ==
    {j \in 1..Len(uses) : uses[j].event = e /\ uses[j].mw = mw /\ ~uses[j].called}

\* C27: the closure use(E, fn) returned removes the occurrence it was made
\* for and no other, however often it is called: fn occurs in the chain of
\* E as many times as there are closures of use(E, fn) that were never
\* called (after two use(E, fn) and calls of the first closure only, once),
\* an emit(E) whose middleware call nothing runs fn that many times, and a
\* call of a closure leaves the other middleware of every chain in place
\* and in order.
C27_UnregisterOwnOccurrence ==
    /\ [](\A e \in EventNames, m \in Mids :
            Occurrences(MapGet(middleware, e), Fn(m)) = Cardinality(Unused(e, Fn(m))))
    /\ [](Returned("emit") /\ Done.during = {} =>
            \A m \in Mids :
                Times(Done, "mwE", m) = Cardinality(Unused(Done.event, Fn(m))))
    /\ [][\A j \in 1..Len(uses) :
            UnregisterKept(j) =>
                \A e \in EventNames :
                    Others(MapGet(middleware', e), uses[j].mw)
                        = Others(MapGet(middleware, e), uses[j].mw)]_vars

----------------------------------------------------------------------------
\* Nobody unregistered mw from the chain of the key while the emit ran.
Kept(fr, key, mw) ==
    Occurrences(MapGet(middleware, key), mw) = Occurrences(MapGet(fr.mw0, key), mw)

\* C31: when the middleware of an emit(E) called nothing but the unregister
\* closure of the running middleware or of one that ran before it in the
\* same list, every middleware of the wildcard chain and of the chain of E
\* that was not unregistered has run once for each of its registrations
\* when emit returns.
C31_UnregisterInChain ==
    Returned("emit") /\ Done.during \subseteq {"unregister"} =>
        \A m \in Mids :
            /\ Kept(Done, "*", Fn(m)) =>
                  Times(Done, "mwG", m) = Occurrences(MapGet(Done.mw0, "*"), Fn(m))
            /\ Kept(Done, Done.event, Fn(m)) =>
                  Times(Done, "mwE", m) = Occurrences(MapGet(Done.mw0, Done.event), Fn(m))

----------------------------------------------------------------------------
\* The registrations of mw that apply to an emit of the event: those on the
\* wildcard and, for another event, those on the event itself.
Applying(mw0, event, mw) ==
    Occurrences(MapGet(mw0, "*"), mw)
        + (IF event = "*" THEN 0 ELSE Occurrences(MapGet(mw0, event), mw))

\* C32: an emit whose callbacks call no method of the bus has invoked, when
\* it returns, every middleware once for each of its registrations that
\* apply to the event, the emit of the event named '*' included.
C32_MiddlewareOncePerEmit ==
    Returned("emit") /\ Done.during = {} =>
        \A m \in Mids :
            Times(Done, "mwG", m) + Times(Done, "mwE", m)
                = Applying(Done.mw0, Done.event, Fn(m))

====
